---- MODULE Spec2Model ----
(***************************************************************************)
(* Document controller (server/controllers/documentController.js) and the  *)
(* Dashboard page loader (src/pages/Dashboard.tsx).                         *)
(*                                                                         *)
(* Every controller handler is an async function: it runs atomically      *)
(* between its awaits, and each awaited store call takes effect at one     *)
(* instant.  The code before a handler's first await reads nothing but the *)
(* request, so it is taken together with the answer of the first store     *)
(* call.  getDocuments, getDocument, createUrlDocument and updateDocument  *)
(* await once and are one step each; uploadDocument (create, then save)    *)
(* and deleteDocument (findOne, then deleteOne) await twice and are two    *)
(* steps, between which the steps of other requests interleave.  A store   *)
(* call either answers or rejects; a rejection lands in the handler's      *)
(* catch block (500).                                                      *)
(*                                                                         *)
(* Spec follows one two-step handler at a time across all request bodies;  *)
(* SpecConcurrent follows concurrent two-step handlers for one set of      *)
(* request bodies; SpecDashboard follows the Dashboard loader,             *)
(* SpecDashboardLive the loader with requests that settle, and SpecRender  *)
(* the loader and the renders of the recent calls' score badges.           *)
(***************************************************************************)
EXTENDS Integers, Sequences, FiniteSets, TLC

\* ---------------------------------------------------------------- bounds
MaxDocs     == 2   \* documents ever created (store-assigned ids 1..MaxDocs)
MaxInFlight == 1   \* handlers suspended between their two awaits at once
MaxConcurrent == 2 \* the same, in the runs that follow concurrent two-step handlers

\* ---------------------------------------------------------------- values
Users  == {"u1", "u2"}
NoUser == "nouser"              \* req.user is undefined
NoId   == "noid"                \* req.user is present but has no id
Reqs   == 1..MaxInFlight
ConcurrentReqs == 1..MaxConcurrent

\* An optional value (undefined or a value) is a sequence of length <= 1.
None    == <<>>
Some(v) == <<v>>

FileSize     == 5
OriginalName == "o.bin"

\* The request bodies the clients of one run send: the MIME type, name and
\* tags of an upload, the name, url and tags of a URL document, the name and
\* tags of an update.  Who sends a request, the document it names and whether
\* an upload carries a file vary per request.
\* A MIME string is kept as the set of the substrings the controller looks
\* for.  The tags of a multipart upload are a string, kept as the sequence of
\* its comma-separated segments ("" is the one empty segment).
Payload(m, un, ut, n, l, t, nn, nt) ==
    [mimetype |-> m, upName |-> un, upTags |-> ut,
     urlName |-> n, url |-> l, urlTags |-> t,
     newName |-> nn, newTags |-> nt]
DefaultPayload ==
    Payload({"pdf", "image", "word"}, Some("a"), Some(<<" t ", "s">>),
            Some("a"), Some("http://x"), Some(<<"t">>), Some("b"), Some(<<"u">>))
Payloads == {
    DefaultPayload,
    Payload({"image", "word"}, None, None,
            Some("a"), Some("http://x"), None, None, Some(<<"u">>)),
    Payload({"word"}, Some("a"), Some(<<"">>),
            Some("a"), Some("http://x"), Some(<<"t">>), Some("b"), None),
    Payload({}, None, Some(<<" t ", "s">>),
            Some("a"), Some("http://x"), None, Some(""), Some(<<>>)),
    Payload({"pdf"}, Some("a"), None,
            None, Some("http://x"), Some(<<"t">>), Some(""), Some(<<"u">>)),
    Payload({"image"}, None, Some(<<"">>),
            Some(""), Some("http://x"), None, Some("b"), Some(<<>>)),
    Payload({"pdf", "image"}, Some("a"), Some(<<" t ", "s">>),
            Some("a"), None, Some(<<"t">>), None, None),
    Payload({"pdf", "word"}, None, None,
            Some("a"), Some(""), None, Some(""), None),
    Payload({}, Some("a"), Some(<<"">>),
            None, None, Some(<<"t">>), None, Some(<<>>)) }

VARIABLES payload,     \* the request bodies of this run
          documents,   \* the Document collection: a set of records
          files,       \* paths of the uploaded files present on the filesystem
          nextId,      \* next store-assigned identifier
          clock,       \* last createdAt timestamp handed out
          reqs,        \* handlers suspended at their second await
          last         \* the handler step taken last and the response it sent

\* The Dashboard page
VARIABLES dpc,            \* where fetchDashboardData is: the request it awaits, or done
          loading,        \* useState(true)
          analyticsData,  \* useState<AnalyticsData | null>(null)
          recentCalls,    \* useState<Call[]>([])
          sent,           \* the requests issued through APIService, in order
          first,          \* what getDashboardAnalytics came back with
          second,         \* what getCalls came back with
          rendered        \* the score badge rendered last

cvars == <<payload, documents, files, nextId, clock, reqs, last>>
dvars == <<dpc, loading, analyticsData, recentCalls, sent, first, second>>
vars  == <<cvars, dvars, rendered>>

\* ------------------------------------------------------- pure helpers
\* JavaScript truthiness of an optional string: undefined and "" are falsy.
TruthyStr(o) == o # None /\ o[1] # ""
\* JavaScript truthiness of an optional array: only undefined is falsy.
TruthyArr(o) == o # None
\* Truthiness of the multipart tags string.
TruthyTagString(o) == o # None /\ o[1] # <<"">>

\* String.prototype.trim on the segments used here.
Trim(s) == CASE s = " t " -> "t"
             [] s = " s"  -> "s"
             [] OTHER     -> s

\* tags.split(',').map(tag => tag.trim())
SplitTags(segs) == [i \in 1..Len(segs) |-> Trim(segs[i])]

\* mimetype.includes(sub)
Includes(mimetype, sub) == sub \in mimetype

\* The type with the image test ahead of the pdf test
DocTypeImageFirst(mimetype) ==
    IF Includes(mimetype, "image") THEN "image"
    ELSE IF Includes(mimetype, "pdf") THEN "pdf"
    ELSE IF Includes(mimetype, "word") THEN "doc"
    ELSE "text"

\* "Determine document type from mimetype"
DocType(mimetype) ==
    IF Includes(mimetype, "pdf") THEN "pdf"
    ELSE IF Includes(mimetype, "image") THEN "image"
    ELSE IF Includes(mimetype, "word") THEN "doc"
    ELSE "text"

\* Document.find(filter) / findOne(filter): the matching records.
FindByIdUser(id, user) == {d \in documents : d.id = id /\ d.user = user}
FindByUser(user)       == {d \in documents : d.user = user}
FindById(id)           == {d \in documents : d.id = id}

\* .sort({ createdAt: 1 }): oldest first
SortOldestFirst(S) ==
    {s \in [1..Cardinality(S) -> S] :
        /\ {s[i] : i \in 1..Cardinality(S)} = S
        /\ \A i, j \in 1..Cardinality(S) : i < j => s[i].createdAt <= s[j].createdAt}

\* .sort({ createdAt: -1 }): the orderings of S that are newest first.
SortNewestFirst(S) ==
    {s \in [1..Cardinality(S) -> S] :
        /\ {s[i] : i \in 1..Cardinality(S)} = S
        /\ \A i, j \in 1..Cardinality(S) : i < j => s[i].createdAt >= s[j].createdAt}

\* ------------------------------------------------------- requests
\* A handler suspended between its two awaits: its local variables.
IdleReq == [pc |-> "idle", user |-> NoUser, id |-> 0, doc |-> None, eff |-> {}]

\* A new two-step handler takes the first free place.
Free(r) ==
    /\ reqs[r].pc = "idle"
    /\ \A s \in DOMAIN reqs : s < r => reqs[s].pc # "idle"

\* A handler step: the request it belongs to, the response it sent
\* (status 0: none yet) and the writes the request has made so far.
NoStep == [op |-> "none", user |-> NoUser, id |-> 0, hasFile |-> FALSE,
           status |-> 0, code |-> "none", body |-> <<>>, error |-> "none", eff |-> {},
           responses |-> 0]

\* res.status(s).json(b): one more response of this invocation
Respond(e, s, b) == [e EXCEPT !.status = s, !.body = b, !.responses = @ + 1]

\* A catch block that only logs the error and sends nothing
CaughtUnanswered(e, u) ==
    [e EXCEPT !.error = IF u = NoUser THEN "TypeError" ELSE "store"]

\* The catch block: res.status(500).json({ message, error: error.message }).
\* A missing req.user makes req.user.id throw a TypeError before any store call.
Caught(e, u) ==
    [Respond(e, 500, <<>>) EXCEPT !.error = IF u = NoUser THEN "TypeError" ELSE "store"]

\* fs.unlinkSync(fullPath) threw
CaughtFs(e) == [Respond(e, 500, <<>>) EXCEPT !.error = "fs"]

\* An unlink that leaves the file in place
UnlinkNothing(fs, path) == fs

\* fs.unlinkSync(fullPath)
Unlink(fs, path) == fs \ {path}

\* A deleteOne filter that matches no record
DeleteOneFilterNoMatch(id) == {}

\* { _id: req.params.id } of Document.deleteOne
DeleteOneFilter(id) == FindById(id)

\* The identifiers a request may name (assigned or not yet assigned).
Ids == 1..MaxDocs

\* createdAt of a new record: the store's clock has advanced since the
\* previous record was created.
CreatedAtChoices == {clock + 1}

\* The check without the url: if (!name)
UrlInputMissingNameOnly(n, l) == ~TruthyStr(n)

\* if (!name || !url)
UrlInputMissing(n, l) == ~TruthyStr(n) \/ ~TruthyStr(l)

\* processed: false // Will be processed asynchronously
UploadProcessed == FALSE

\* processed: false on a URL document
UrlUnprocessed == FALSE

\* processed: true // URL documents are considered processed immediately
UrlProcessed == TRUE

\* { _id: req.params.id, user: req.user.id } of getDocument's findOne
GetFilter(id, user) == FindByIdUser(id, user)

\* { user: req.user.id } of getDocuments' find
ListFilter(user) == FindByUser(user)

\* { _id: req.params.id, user: req.user.id } of findOneAndUpdate
UpdateFilter(id, user) == FindByIdUser(id, user)

\* The filter without the owner: { _id: req.params.id }
DeleteFilterByIdOnly(id, user) == FindById(id)

\* { _id: req.params.id, user: req.user.id } of deleteDocument's findOne
DeleteFilter(id, user) == FindByIdUser(id, user)

\* The updates without the tags: if (name) updates.name = name;
ApplyUpdatesNameOnly(d, n, t) == [d EXCEPT !.name = IF TruthyStr(n) THEN n[1] ELSE @]

\* if (name) updates.name = name; if (tags) updates.tags = tags;
ApplyUpdates(d, n, t) ==
    [d EXCEPT !.name = IF TruthyStr(n) THEN n[1] ELSE @,
              !.tags = IF TruthyArr(t) THEN t[1] ELSE @]

\* ------------------------------------------------------- Dashboard
\* Calls as the API returns them: score and performanceData.score are
\* optional numbers.
Calls == {[id |-> "c1", score |-> Some(85), perf |-> None],
          [id |-> "c2", score |-> None,     perf |-> Some(72)],
          [id |-> "c3", score |-> None,     perf |-> None],
          [id |-> "c4", score |-> Some(60), perf |-> Some(90)],
          [id |-> "c5", score |-> Some(0),  perf |-> Some(0)]}

\* Lists of calls a response may carry (undefined, or up to two calls).
CallLists == {None} \cup {Some(<<>>)} \cup {Some(<<c>>) : c \in Calls}
             \cup {Some(<<c, d>>) : c \in Calls, d \in Calls}

TotalCalls == {0, 3, 7}

\* getCalls({ limit: 4 })
FallbackLimit == 4

\* What an APIService request came back with.
Pending        == [kind |-> "pending", total |-> 0, calls |-> None]
Thrown         == [kind |-> "throw",   total |-> 0, calls |-> None]
NonSuccess     == [kind |-> "fail",    total |-> 0, calls |-> None]
Success(t, cs) == [kind |-> "ok",      total |-> t, calls |-> cs]

\* x || []
OrEmpty(o) == IF o = None THEN <<>> ELSE o[1]

\* Math.floor(Math.random() * 30) + 70 lies in 70..99; the draws followed.
RandomScores == {70, 79, 80, 99}

\* getCallScore(performanceData), given the value Math.random draws in this
\* evaluation.  perf is the score held by performanceData (None: no
\* performanceData, or not an object, or no score in it).
getCallScore(perf, rnd) ==
    IF perf = None THEN rnd
    ELSE IF perf[1] # 0 THEN perf[1] ELSE rnd

\* call.score || getCallScore(call.performanceData)
ScoreExpr(call, rnd) ==
    IF call.score # None /\ call.score[1] # 0 THEN call.score[1]
    ELSE getCallScore(call.perf, rnd)

\* The class of the score badge: the first test and the second test each
\* evaluate the score expression.
BadgeBand(call, rnd1, rnd2) ==
    IF ScoreExpr(call, rnd1) >= 80 THEN "success"
    ELSE IF ScoreExpr(call, rnd2) >= 70 THEN "warning"
    ELSE "error"

\* No badge rendered yet.
NoBadge == [call |-> "none", score |-> None, perf |-> None, band |-> "none", text |-> 0]

\* The Dashboard component after its first render: the mount effect has
\* called fetchDashboardData, which awaits getDashboardAnalytics.
InitDashboard ==
    /\ dpc = "analytics"
    /\ loading = TRUE
    /\ analyticsData = None
    /\ recentCalls = <<>>
    /\ sent = <<[api |-> "getDashboardAnalytics", limit |-> 0]>>
    /\ first = Pending
    /\ second = Pending
    /\ rendered = NoBadge

\* The controller with an empty store and no request under way.
InitController(slots) ==
    /\ documents = {}
    /\ files = {}
    /\ nextId = 1
    /\ clock = 0
    /\ reqs = [r \in slots |-> IdleReq]
    /\ last = NoStep

Init ==
    /\ payload \in Payloads
    /\ InitController(Reqs)
    /\ InitDashboard

\* getDocuments
GetDocuments ==
    /\ \E u \in Users \cup {NoUser, NoId} :
         LET e == [NoStep EXCEPT !.op = "getDocuments", !.user = u] IN
         IF u \in {NoUser, NoId}                       \* !req.user || !req.user.id
         THEN last' = [Respond(e, 401, <<>>) EXCEPT !.code = "AUTH_REQUIRED"]
         ELSE \/ \E s \in SortNewestFirst(ListFilter(u)) :
                   last' = Respond(e, 200, s)
              \/ last' = [Caught(e, u) EXCEPT !.code = "DOCUMENT_FETCH_ERROR"]  \* find rejects
    /\ UNCHANGED <<payload, documents, files, nextId, clock, reqs>>
    /\ UNCHANGED <<dvars, rendered>>

\* getDocument
GetDocument ==
    /\ \E u \in Users \cup {NoUser}, id \in Ids :
         LET e     == [NoStep EXCEPT !.op = "getDocument", !.user = u, !.id = id]
             found == GetFilter(id, u) IN
         IF u = NoUser
         THEN last' = Caught(e, u)                      \* req.user.id throws TypeError
         ELSE \/ last' = IF found = {}
                         THEN Respond(e, 404, <<>>)
                         ELSE Respond(e, 200, <<CHOOSE d \in found : TRUE>>)
              \/ last' = Caught(e, u)                   \* Document.findOne rejects
    /\ UNCHANGED <<payload, documents, files, nextId, clock, reqs>>
    /\ UNCHANGED <<dvars, rendered>>

\* uploadDocument without a file payload
UploadDocumentNoFile ==
    /\ \E u \in Users \cup {NoUser} :
         last' = Respond([NoStep EXCEPT !.op = "uploadDocument", !.user = u], 400, <<>>)
    /\ UNCHANGED <<payload, documents, files, nextId, clock, reqs>>
    /\ UNCHANGED <<dvars, rendered>>

\* uploadDocument with a file payload, up to the answer of Document.create.
\* The upload middleware has written the file to a path of its own, named
\* here after the record that comes to hold it; a file that no record names
\* is never read or removed by the controller and is left out.
UploadDocumentCreate(r) ==
    /\ Free(r)
    /\ \E u \in Users \cup {NoUser} :
         LET file == [originalname |-> OriginalName, mimetype |-> payload.mimetype,
                      path |-> nextId, size |-> FileSize]
             name == payload.upName
             tags == payload.upTags
             e == [NoStep EXCEPT !.op = "uploadDocument", !.user = u, !.hasFile = TRUE] IN
         \/ /\ u # NoUser                               \* Document.create answers
            /\ nextId <= MaxDocs
            /\ \E at \in CreatedAtChoices :
                 LET d == [id |-> nextId,
                           name |-> IF TruthyStr(name) THEN name[1] ELSE file.originalname,
                           type |-> DocType(file.mimetype),
                           filePath |-> Some(file.path),
                           url |-> None,
                           user |-> u,
                           fileSize |-> Some(file.size),
                           mimeType |-> Some(file.mimetype),
                           tags |-> IF TruthyTagString(tags) THEN SplitTags(tags[1]) ELSE <<>>,
                           processed |-> UploadProcessed,
                           createdAt |-> at] IN
                 /\ documents' = documents \cup {d}
                 /\ files' = files \cup {file.path}
                 /\ nextId' = nextId + 1
                 /\ clock' = at
                 /\ reqs' = [reqs EXCEPT ![r] = [pc |-> "save", user |-> u, id |-> d.id,
                                                 doc |-> Some(d), eff |-> {"create"}]]
                 /\ last' = [e EXCEPT !.id = d.id, !.eff = {"create"}]
         \/ /\ last' = Caught(e, u)        \* req.user.id throws, or Document.create rejects
            /\ UNCHANGED <<documents, files, nextId, clock, reqs>>
    /\ UNCHANGED payload
    /\ UNCHANGED <<dvars, rendered>>

\* uploadDocument: document.processed = true; await document.save().
\* save() writes the modified path of the record with the document's _id and
\* rejects (DocumentNotFoundError) when that record is gone.
UploadDocumentSave(r) ==
    /\ reqs[r].pc = "save"
    /\ LET q      == reqs[r]
           local  == [q.doc[1] EXCEPT !.processed = TRUE]
           stored == FindById(local.id)
           e      == [NoStep EXCEPT !.op = "uploadDocument", !.user = q.user,
                                    !.id = q.id, !.hasFile = TRUE, !.eff = q.eff] IN
         \/ /\ stored # {}                               \* save answers
            /\ documents' = (documents \ stored) \cup
                              {[d EXCEPT !.processed = TRUE] : d \in stored}
            /\ last' = Respond([e EXCEPT !.eff = @ \cup {"save"}], 201, <<local>>)
         \/ /\ documents' = documents                    \* save rejects
            /\ last' = Caught(e, q.user)
    /\ reqs' = [reqs EXCEPT ![r] = IdleReq]
    /\ UNCHANGED <<payload, files, nextId, clock>>
    /\ UNCHANGED <<dvars, rendered>>

\* createUrlDocument
CreateUrlDocument ==
    /\ \E u \in Users \cup {NoUser} :
         LET name == payload.urlName
             url  == payload.url
             tags == payload.urlTags
             e == [NoStep EXCEPT !.op = "createUrlDocument", !.user = u] IN
         IF UrlInputMissing(name, url)
         THEN /\ last' = Respond(e, 400, <<>>)
              /\ UNCHANGED <<documents, nextId, clock>>
         ELSE \/ /\ u # NoUser                          \* Document.create answers
                 /\ nextId <= MaxDocs
                 /\ \E at \in CreatedAtChoices :
                      LET d == [id |-> nextId,
                                name |-> name[1],
                                type |-> "url",
                                filePath |-> None,
                                url |-> url,
                                user |-> u,
                                fileSize |-> None,
                                mimeType |-> None,
                                tags |-> IF TruthyArr(tags) THEN tags[1] ELSE <<>>,
                                processed |-> UrlProcessed,
                                createdAt |-> at] IN
                      /\ documents' = documents \cup {d}
                      /\ nextId' = nextId + 1
                      /\ clock' = at
                      /\ last' = Respond([e EXCEPT !.id = d.id, !.eff = {"create"}], 201, <<d>>)
              \/ /\ last' = Caught(e, u)   \* req.user.id throws, or Document.create rejects
                 /\ UNCHANGED <<documents, nextId, clock>>
    /\ UNCHANGED <<payload, files, reqs>>
    /\ UNCHANGED <<dvars, rendered>>

\* updateDocument
UpdateDocument ==
    /\ \E u \in Users \cup {NoUser}, id \in Ids :
         LET name  == payload.newName
             tags  == payload.newTags
             e     == [NoStep EXCEPT !.op = "updateDocument", !.user = u, !.id = id]
             found == UpdateFilter(id, u) IN
         \/ /\ u # NoUser                   \* Document.findOneAndUpdate answers
            /\ IF found = {}
               THEN /\ last' = Respond(e, 404, <<>>)
                    /\ UNCHANGED documents
               ELSE LET old == CHOOSE d \in found : TRUE
                        new == ApplyUpdates(old, name, tags) IN
                    /\ documents' = (documents \ {old}) \cup {new}
                    /\ last' = Respond([e EXCEPT !.eff = IF new = old THEN {} ELSE {"update"}],
                                       200, <<new>>)
         \/ /\ last' = Caught(e, u)          \* req.user.id throws, or the call rejects
            /\ UNCHANGED documents
    /\ UNCHANGED <<payload, files, nextId, clock, reqs>>
    /\ UNCHANGED <<dvars, rendered>>

\* deleteDocument, up to the answer of Document.findOne and, when a document
\* was found, the synchronous removal of its file.
DeleteDocumentFindOne(r) ==
    /\ Free(r)
    /\ \E u \in Users \cup {NoUser}, id \in Ids :
         LET e     == [NoStep EXCEPT !.op = "deleteDocument", !.user = u, !.id = id]
             found == DeleteFilter(id, u) IN
         \/ /\ u # NoUser /\ found = {}                  \* findOne answers null
            /\ last' = Respond(e, 404, <<>>)
            /\ UNCHANGED <<files, reqs>>
         \/ /\ u # NoUser /\ found # {}                  \* findOne answers a document
            /\ LET d == CHOOSE x \in found : TRUE IN
               IF d.filePath # None /\ d.filePath[1] \in files      \* fs.existsSync
               THEN \/ /\ files' = Unlink(files, d.filePath[1])      \* fs.unlinkSync
                       /\ reqs' = [reqs EXCEPT ![r] =
                                     [pc |-> "deleteOne", user |-> u, id |-> id,
                                      doc |-> Some(d), eff |-> {"unlink"}]]
                       /\ last' = [e EXCEPT !.eff = {"unlink"}]
                    \/ /\ last' = CaughtFs(e)                       \* fs.unlinkSync throws
                       /\ UNCHANGED <<files, reqs>>
               ELSE /\ reqs' = [reqs EXCEPT ![r] =
                                  [pc |-> "deleteOne", user |-> u, id |-> id,
                                   doc |-> Some(d), eff |-> {}]]
                    /\ last' = e
                    /\ UNCHANGED files
         \/ /\ last' = Caught(e, u)           \* req.user.id throws, or findOne rejects
            /\ UNCHANGED <<files, reqs>>
    /\ UNCHANGED <<payload, documents, nextId, clock>>
    /\ UNCHANGED <<dvars, rendered>>

\* deleteDocument: await Document.deleteOne({ _id: req.params.id })
DeleteDocumentDeleteOne(r) ==
    /\ reqs[r].pc = "deleteOne"
    /\ LET q    == reqs[r]
           gone == DeleteOneFilter(q.id)
           e    == [NoStep EXCEPT !.op = "deleteDocument", !.user = q.user,
                                  !.id = q.id, !.eff = q.eff] IN
         \/ /\ documents' = documents \ gone             \* deleteOne answers
            /\ last' = Respond([e EXCEPT !.eff = IF gone = {} THEN @ ELSE @ \cup {"deleteOne"}],
                               200, <<>>)
         \/ /\ documents' = documents                    \* deleteOne rejects
            /\ last' = Caught(e, q.user)
    /\ reqs' = [reqs EXCEPT ![r] = IdleReq]
    /\ UNCHANGED <<payload, files, nextId, clock>>
    /\ UNCHANGED <<dvars, rendered>>

Next ==
    \/ GetDocuments
    \/ GetDocument
    \/ UploadDocumentNoFile
    \/ \E r \in DOMAIN reqs : UploadDocumentCreate(r)
    \/ \E r \in DOMAIN reqs : UploadDocumentSave(r)
    \/ CreateUrlDocument
    \/ UpdateDocument
    \/ \E r \in DOMAIN reqs : DeleteDocumentFindOne(r)
    \/ \E r \in DOMAIN reqs : DeleteDocumentDeleteOne(r)

Spec == Init /\ [][Next]_vars

\* The controller with up to MaxConcurrent two-step handlers suspended at
\* once: uploads and deletes interleave with each other.  The request bodies
\* are one upload of a PDF, one URL document and an update that names no
\* field.
ConcurrentPayload ==
    Payload({"pdf"}, Some("a"), None, Some("a"), Some("http://x"), None, None, None)

InitConcurrent ==
    /\ payload = ConcurrentPayload
    /\ InitController(ConcurrentReqs)
    /\ InitDashboard

SpecConcurrent == InitConcurrent /\ [][Next]_vars

\* fetchDashboardData: getDashboardAnalytics answers with success
AnalyticsSuccess ==
    /\ dpc = "analytics"
    /\ \E t \in TotalCalls, cs \in CallLists :
         /\ first' = Success(t, cs)
         /\ analyticsData' = Some([totalCalls |-> t, recentCalls |-> cs])
         /\ recentCalls' = OrEmpty(cs)
    /\ loading' = FALSE                                  \* finally
    /\ dpc' = "done"
    /\ UNCHANGED <<sent, second>>
    /\ UNCHANGED <<cvars, rendered>>

\* fetchDashboardData: getDashboardAnalytics answers without success; the
\* else branch issues getCalls({ limit: 4 })
AnalyticsNonSuccess ==
    /\ dpc = "analytics"
    /\ first' = NonSuccess
    /\ sent' = Append(sent, [api |-> "getCalls", limit |-> FallbackLimit])
    /\ dpc' = "calls"
    /\ UNCHANGED <<loading, analyticsData, recentCalls, second>>
    /\ UNCHANGED <<cvars, rendered>>

\* fetchDashboardData: getDashboardAnalytics rejects; catch logs, finally runs
AnalyticsThrows ==
    /\ dpc = "analytics"
    /\ first' = Thrown
    /\ loading' = FALSE                                  \* finally
    /\ dpc' = "done"
    /\ UNCHANGED <<analyticsData, recentCalls, sent, second>>
    /\ UNCHANGED <<cvars, rendered>>

\* fetchDashboardData: getCalls answers with success
CallsSuccess ==
    /\ dpc = "calls"
    /\ \E cs \in CallLists :
         /\ second' = Success(0, cs)
         /\ recentCalls' = OrEmpty(cs)
    /\ loading' = FALSE                                  \* finally
    /\ dpc' = "done"
    /\ UNCHANGED <<analyticsData, sent, first>>
    /\ UNCHANGED <<cvars, rendered>>

\* fetchDashboardData: getCalls answers without success
CallsNonSuccess ==
    /\ dpc = "calls"
    /\ second' = NonSuccess
    /\ loading' = FALSE                                  \* finally
    /\ dpc' = "done"
    /\ UNCHANGED <<analyticsData, recentCalls, sent, first>>
    /\ UNCHANGED <<cvars, rendered>>

\* A getCalls rejection after which loading is not cleared (no finally block)
CallsThrowsKeepsLoading ==
    /\ dpc = "calls"
    /\ second' = Thrown
    /\ dpc' = "done"
    /\ UNCHANGED <<loading, analyticsData, recentCalls, sent, first>>
    /\ UNCHANGED <<cvars, rendered>>

\* fetchDashboardData: getCalls rejects; catch logs, finally runs
CallsThrows ==
    /\ dpc = "calls"
    /\ second' = Thrown
    /\ loading' = FALSE                                  \* finally
    /\ dpc' = "done"
    /\ UNCHANGED <<analyticsData, recentCalls, sent, first>>
    /\ UNCHANGED <<cvars, rendered>>

\* Render of the score badge of one recent call (the list is shown once
\* loading is false and recentCalls is not empty): the band tests and the
\* displayed text evaluate the score expression one after the other, each
\* with its own Math.random draw.
RenderScoreBadge ==
    /\ ~loading
    /\ recentCalls # <<>>
    /\ \E i \in 1..Len(recentCalls), rnd1, rnd2, rnd3 \in RandomScores :
         LET call == recentCalls[i] IN
         rendered' = [call |-> call.id, score |-> call.score, perf |-> call.perf,
                      band |-> BadgeBand(call, rnd1, rnd2),
                      text |-> ScoreExpr(call, rnd3)]
    /\ UNCHANGED <<cvars, dvars>>

NextDashboard ==
    \/ AnalyticsSuccess
    \/ AnalyticsNonSuccess
    \/ AnalyticsThrows
    \/ CallsSuccess
    \/ CallsNonSuccess
    \/ CallsThrows

\* The Dashboard page alone, in front of an idle controller.
InitIdleController ==
    /\ payload = DefaultPayload
    /\ InitController(Reqs)
    /\ InitDashboard

SpecDashboard == InitIdleController /\ [][NextDashboard]_vars

\* The same, with every request the page awaits settling in the end (it
\* answers with or without success, or rejects): the continuation of
\* fetchDashboardData after an await runs once the awaited promise settles.
SpecDashboardLive == SpecDashboard /\ WF_vars(NextDashboard)

\* The Dashboard page with its renders of the recent calls.
NextRender ==
    \/ NextDashboard
    \/ RenderScoreBadge

SpecRender == InitIdleController /\ [][NextRender]_vars


\* ======================================================= properties
\* Every step of Spec is a handler step and leaves its record in last', so
\* the step properties below read the step just taken from last'.

\* The request of step e names a document that another user owns.
NamesForeign(e) ==
    /\ e.op \in {"getDocument", "updateDocument", "deleteDocument"}
    /\ e.user \in Users
    /\ \E d \in documents : d.id = e.id /\ d.user # e.user

\* Step e returns only documents of its user and leaves every document of
\* another user, and its file, as they were.
Isolated(e) ==
    /\ (e.op \in {"getDocument", "getDocuments"} /\ e.status = 200)
          => \A i \in 1..Len(e.body) : e.body[i].user = e.user
    /\ \A d \in documents :
          d.user # e.user =>
             /\ d \in documents'
             /\ (d.filePath # None /\ d.filePath[1] \in files) => d.filePath[1] \in files'

\* C1, as claimed: no request issued as U returns, modifies or removes a
\* document of another user V, and getDocument, updateDocument and
\* deleteDocument of U on a document of V all answer 404.
C1_OwnerIsolation404 ==
    [][LET e == last' IN
         /\ Isolated(e)
         /\ NamesForeign(e) => e.status = 404]_vars

\* C1, amended: no request issued as U returns, modifies or removes a
\* document of another user V; getDocument, updateDocument and deleteDocument
\* of U on a document of V answer 404, or 500 when the store call rejects,
\* and never anything else.
C1_OwnerIsolation ==
    [][LET e == last' IN
         /\ Isolated(e)
         /\ NamesForeign(e) => \/ e.status = 404
                               \/ e.status = 500 /\ e.error = "store"]_vars

\* C1 witness: u's updateDocument on a document of v answered 404 while v's
\* upload of that document is suspended between create and save.
C1_Witness ==
    /\ last.op = "updateDocument" /\ last.status = 404 /\ last.user \in Users
    /\ \E d \in documents :
          /\ d.id = last.id /\ d.user # last.user
          /\ d.filePath # None /\ d.filePath[1] \in files
          /\ \E r \in DOMAIN reqs : reqs[r].pc = "save" /\ reqs[r].id = d.id

\* Absent or empty input.
Missing(o) == o = None \/ o = Some("")

\* C2: uploadDocument without a file, and createUrlDocument without name or
\* without url, respond 400 and leave the stored documents (and the files) as
\* they were.
C2_MissingInputRejected ==
    [][LET e == last' IN
         (\/ e.op = "uploadDocument" /\ ~e.hasFile
          \/ e.op = "createUrlDocument" /\ (Missing(payload.urlName) \/ Missing(payload.url)))
         => /\ e.status = 400
            /\ documents' = documents
            /\ files' = files]_vars

\* C2 witness: a createUrlDocument with a name and no url was answered 400
\* with a document in the store.
C2_Witness ==
    /\ last.op = "createUrlDocument" /\ last.status = 400
    /\ payload.urlName = Some("a") /\ payload.url = None
    /\ documents # {}

\* The documents with identifier id that user u owns.
OwnedBy(docs, id, u) == {d \in docs : d.id = id /\ d.user = u}

\* Step e is an updateDocument of a user; new is old with the name replaced
\* when name holds n, and the tags replaced when tags holds t.
UpdatedTo(old, new, setName, n, setTags, t) ==
    /\ new.name = IF setName THEN n[1] ELSE old.name
    /\ new.tags = IF setTags THEN t[1] ELSE old.tags
    /\ [new EXCEPT !.name = old.name, !.tags = old.tags] = old

\* An answered update: the stored document old became new, nothing else
\* changed, the response carries new and a following getDocument finds it.
UpdateApplied(e, old, new) ==
    /\ e.status = 200
    /\ e.body = <<new>>
    /\ documents' = (documents \ {old}) \cup {new}
    /\ OwnedBy(documents', e.id, e.user) = {new}
    /\ files' = files

\* C3, as claimed: updateDocument on a document its user owns sets each field
\* the request supplies to the supplied value and leaves the rest; with no
\* such document it responds 404 and changes nothing.
C3_UpdateSetsSupplied ==
    [][LET e == last' IN
         (e.op = "updateDocument" /\ e.user \in Users) =>
            LET owned == OwnedBy(documents, e.id, e.user) IN
            /\ \A old \in owned :
                  \E new \in documents' :
                     /\ UpdateApplied(e, old, new)
                     /\ UpdatedTo(old, new, payload.newName # None, payload.newName,
                                  payload.newTags # None, payload.newTags)
            /\ owned = {} => e.status = 404 /\ documents' = documents /\ files' = files]_vars

\* C3, amended: updateDocument on a document its user owns, when the store
\* call answers, sets the name if a non-empty name is supplied and the tags
\* if tags are supplied, to the supplied values, and leaves every other field
\* and every other document unchanged; an empty name is ignored; with no such
\* document it responds 404; when the store call rejects it responds 500; in
\* both cases nothing changes.
C3_UpdateSetsNonEmpty ==
    [][LET e == last' IN
         (e.op = "updateDocument" /\ e.user \in Users) =>
            LET owned == OwnedBy(documents, e.id, e.user) IN
            \/ /\ e.status = 500 /\ e.error = "store"
               /\ documents' = documents /\ files' = files
            \/ /\ e.status = 404 /\ owned = {}
               /\ documents' = documents /\ files' = files
            \/ \E old \in owned, new \in documents' :
                  /\ UpdateApplied(e, old, new)
                  /\ UpdatedTo(old, new, ~Missing(payload.newName), payload.newName,
                               payload.newTags # None, payload.newTags)]_vars

\* C3 witness: an update supplying the empty name and the empty tag list
\* emptied the tags of an uploaded document and kept its name.
C3_Witness ==
    /\ last.op = "updateDocument" /\ last.status = 200
    /\ payload.newName = Some("") /\ payload.newTags = Some(<<>>)
    /\ "update" \in last.eff
    /\ \E d \in documents :
          d.id = last.id /\ d.user = last.user /\ d.tags = <<>> /\ d.name = OriginalName

\* The documents with identifier id.
WithId(docs, id) == {d \in docs : d.id = id}

\* The step just taken is the first step of its handler: no suspended handler
\* moved.
Lookup == \A r \in DOMAIN reqs : reqs[r].pc = "idle" \/ reqs'[r] = reqs[r]

\* The record named by e is gone after the step and no other record is; the
\* document the handler had found was the user's, its file, if it has one, is
\* not on disk, and for a URL document no file was touched.
Deleted(e) ==
    /\ WithId(documents', e.id) = {}
    /\ \A d \in documents : d.id # e.id => d \in documents'
    /\ \E r \in DOMAIN reqs :
          /\ reqs[r].pc = "deleteOne" /\ reqs'[r] # reqs[r]
          /\ LET d == reqs[r].doc[1] IN
                /\ d.id = e.id /\ d.user = e.user
                /\ d.filePath # None => d.filePath[1] \notin files'
                /\ d.filePath = None => files' = files /\ "unlink" \notin e.eff

\* C4, as claimed: after a deleteDocument that responds 200 the record is
\* absent and so is the file of a file document, a URL document loses only its
\* record, and a request that finds no document of that id owned by the user
\* is answered 404 and changes nothing.
C4_DeleteRemoves ==
    [][LET e == last' IN
         (e.op = "deleteDocument" /\ e.user \in Users) =>
            /\ e.status = 200 => Deleted(e)
            /\ (Lookup /\ OwnedBy(documents, e.id, e.user) = {})
                  => e.status = 404 /\ documents' = documents /\ files' = files]_vars

\* C4, amended: as claimed, except that a request for an id of which the user
\* owns no document is answered 404, or 500 when the findOne call rejects; in
\* both cases nothing changes.
C4_DeleteRemovesOr500 ==
    [][LET e == last' IN
         (e.op = "deleteDocument" /\ e.user \in Users) =>
            /\ e.status = 200 => Deleted(e)
            /\ e.status = 404 => Lookup /\ OwnedBy(documents, e.id, e.user) = {}
            /\ (Lookup /\ OwnedBy(documents, e.id, e.user) = {})
                  => /\ e.status = 404 \/ (e.status = 500 /\ e.error = "store")
                     /\ documents' = documents /\ files' = files]_vars

\* C4 witness: a deleteDocument answered 200 after removing the file and the
\* record of an uploaded document.
C4_Witness ==
    /\ last.op = "deleteDocument" /\ last.status = 200
    /\ last.eff = {"unlink", "deleteOne"}
    /\ WithId(documents, last.id) = {}
    /\ documents # {}

\* body lists exactly the documents of docs, newest first.
ListsNewestFirst(body, docs) ==
    /\ Len(body) = Cardinality(docs)
    /\ {body[i] : i \in 1..Len(body)} = docs
    /\ \A i, j \in 1..Len(body) : i < j => body[i].createdAt >= body[j].createdAt

\* Without an authenticated user getDocuments answers 401 AUTH_REQUIRED
\* whatever the store would do, and it never changes store or files.
ListGuarded(e) ==
    /\ documents' = documents /\ files' = files
    /\ e.user \in {NoUser, NoId}
          => e.status = 401 /\ e.code = "AUTH_REQUIRED" /\ e.error = "none" /\ e.body = <<>>

\* C5, as claimed: getDocuments answers 401 AUTH_REQUIRED without an
\* authenticated user; otherwise it returns exactly the documents of the
\* requesting user, newest first; it never modifies the store.
C5_ListOwnedNewestFirst ==
    [][LET e == last' IN
         e.op = "getDocuments" =>
            /\ ListGuarded(e)
            /\ e.user \in Users
                  => /\ e.status = 200
                     /\ ListsNewestFirst(e.body, {d \in documents : d.user = e.user})]_vars

\* C5, amended: as claimed, except that with an authenticated user the
\* response is either that list (200) or, when the find call rejects, 500
\* DOCUMENT_FETCH_ERROR.
C5_ListOwnedNewestFirstOr500 ==
    [][LET e == last' IN
         e.op = "getDocuments" =>
            /\ ListGuarded(e)
            /\ e.user \in Users
                  => \/ /\ e.status = 200
                        /\ ListsNewestFirst(e.body, {d \in documents : d.user = e.user})
                     \/ /\ e.status = 500 /\ e.error = "store"
                        /\ e.code = "DOCUMENT_FETCH_ERROR" /\ e.body = <<>>]_vars

\* C5 witness: getDocuments returned the two documents of its user, the
\* later one first.
C5_Witness ==
    /\ last.op = "getDocuments" /\ last.status = 200
    /\ Len(last.body) = 2
    /\ last.body[1].createdAt > last.body[2].createdAt
    /\ last.body[1].type = "url" /\ last.body[2].type # "url"

\* The getCalls requests issued so far.
FallbackRequests == {i \in 1..Len(sent) : sent[i].api = "getCalls"}

\* C6, as claimed: when the analytics request throws or reports non-success
\* the fallback getCalls({ limit: 4 }) is issued exactly once and, if it
\* succeeds, recentCalls is set from its result; when the analytics request
\* succeeds no fallback is issued and recentCalls comes from the analytics
\* data.
C6_FallbackOnFailure ==
    dpc = "done" =>
       /\ first.kind \in {"throw", "fail"}
             => /\ Cardinality(FallbackRequests) = 1
                /\ \A i \in FallbackRequests : sent[i].limit = FallbackLimit
                /\ second.kind = "ok" => recentCalls = OrEmpty(second.calls)
       /\ first.kind = "ok"
             => /\ FallbackRequests = {}
                /\ recentCalls = OrEmpty(first.calls)

\* The error statuses.
ErrorStatus == {400, 401, 404, 500}

\* C7, as claimed: an operation that ends with an error response has written
\* nothing: the request created, saved, updated or deleted no record and
\* removed no file.
C7_NoEffectOnError ==
    last.status \in ErrorStatus => last.eff = {}

\* C8, as claimed: every document in the store has processed = true, in
\* every state.
C8_AlwaysProcessed ==
    \A d \in documents : d.processed

\* C8, amended: a URL document has processed = true in every state; an
\* uploaded document is stored with processed = false and has processed =
\* true from the step in which its upload responds 201; a document that is
\* processed stays processed.  Between the two writes of an upload, and after
\* a failed second write, processed = false is observable.
C8_ProcessedOnceAnswered ==
    [][LET e == last' IN
         /\ \A d \in documents' : d.type = "url" => d.processed
         /\ (e.op = "uploadDocument" /\ e.status = 201)
               => /\ e.body[1].processed
                  /\ \E d \in documents' : d.id = e.id /\ d.processed
         /\ \A d \in documents : d.processed =>
               \A d2 \in documents' : d2.id = d.id => d2.processed]_vars

\* C8 witness: an upload responded 201 and its document, stored next to a
\* URL document, is processed.
C8_Witness ==
    /\ last.op = "uploadDocument" /\ last.status = 201
    /\ \E d \in documents : d.id = last.id /\ d.processed /\ d.type # "url"
    /\ \E d \in documents : d.type = "url" /\ d.processed

\* pdf, then image, then word, else text
ByPrecedence(mimetype) ==
    CASE "pdf" \in mimetype   -> "pdf"
      [] "pdf" \notin mimetype /\ "image" \in mimetype -> "image"
      [] "pdf" \notin mimetype /\ "image" \notin mimetype /\ "word" \in mimetype -> "doc"
      [] OTHER -> "text"

\* C9: every stored document has a type among text, pdf, image, doc and
\* url; it has type url exactly when it has a url and no filePath, fileSize
\* or mimeType; a document of another type has filePath, fileSize and
\* mimeType and no url, and its type follows from its MIME type with the
\* precedence pdf, image, word, else text.
C9_DataModel ==
    \A d \in documents :
       /\ d.type \in {"text", "pdf", "image", "doc", "url"}
       /\ d.type = "url" <=> (/\ d.url # None /\ d.filePath = None
                              /\ d.fileSize = None /\ d.mimeType = None)
       /\ d.type # "url" => /\ d.filePath # None /\ d.fileSize # None
                            /\ d.mimeType # None /\ d.url = None
                            /\ d.type = ByPrecedence(d.mimeType[1])

\* C9 witness: the store holds a URL document and an upload whose MIME type
\* names both image and word, typed image.
C9_Witness ==
    /\ \E d \in documents : d.type = "url"
    /\ \E d \in documents : d.type = "image" /\ d.mimeType = Some({"image", "word"})

\* A record leaves the store only in the deleteOne step of a delete that has
\* passed its file step, and by then its file is not on disk (never: record
\* gone, file still there).  A file leaves the disk only in the first step of
\* a delete, with the record still stored.
FileThenRecord(e) ==
    /\ \A d \in documents :
          WithId(documents', d.id) = {} =>
             /\ e.op = "deleteDocument" /\ e.status = 200 /\ e.id = d.id
             /\ \E r \in DOMAIN reqs :
                   reqs[r].pc = "deleteOne" /\ reqs'[r] # reqs[r] /\ reqs[r].id = d.id
             /\ d.filePath # None => d.filePath[1] \notin files'
    /\ \A p \in files \ files' :
          /\ e.op = "deleteDocument" /\ e.status = 0
          /\ \E d \in documents' : d.id = e.id /\ d.filePath = Some(p)
          /\ \E r \in DOMAIN reqs :
                reqs[r].pc = "idle" /\ reqs'[r].pc = "deleteOne" /\ reqs'[r].id = e.id
    /\ files \subseteq files' \/ documents' = documents

\* The deleteOne of suspended delete r rejected in the step just taken.
DeleteOneRejected(r) ==
    reqs[r].pc = "deleteOne" /\ reqs'[r] # reqs[r] /\ last'.status # 200

\* No compensation: the rejected deleteOne is answered 500 and the step
\* restores nothing; the file the delete removed stays removed.
NotCompensated(e, r) ==
    /\ e.op = "deleteDocument" /\ e.status = 500
    /\ documents' = documents /\ files' = files
    /\ "unlink" \in e.eff =>
          /\ reqs[r].doc[1].filePath # None
          /\ reqs[r].doc[1].filePath[1] \notin files'

\* C10, as claimed: in deleteDocument the file is removed before the record,
\* the reverse state is never produced, and when deleteOne rejects after the
\* file was removed the response is 500, nothing is restored, and the record
\* is stored without its file.
C10_FileBeforeRecordLeft ==
    [][LET e == last' IN
         /\ FileThenRecord(e)
         /\ \A r \in DOMAIN reqs :
               DeleteOneRejected(r) =>
                  /\ NotCompensated(e, r)
                  /\ "unlink" \in e.eff =>
                        \E d \in documents' :
                           d.id = e.id /\ d.filePath # None /\ d.filePath[1] \notin files']_vars

\* C10, amended: as claimed, except that after the rejected deleteOne the
\* record is stored without its file only if it is still stored: another
\* delete of the same document, which found the record before, may have
\* removed it in the meantime, and then neither record nor file is left.
C10_FileBeforeRecord ==
    [][LET e == last' IN
         /\ FileThenRecord(e)
         /\ \A r \in DOMAIN reqs :
               DeleteOneRejected(r) =>
                  /\ NotCompensated(e, r)
                  /\ "unlink" \in e.eff =>
                        \A d \in WithId(documents', e.id) :
                           d.filePath # None /\ d.filePath[1] \notin files']_vars

\* C10 witness: a deleteDocument removed the file, its deleteOne rejected, the
\* response was 500, and the record is stored without its file.
C10_Witness ==
    /\ last.op = "deleteDocument" /\ last.status = 500 /\ "unlink" \in last.eff
    /\ \E d \in documents : d.id = last.id /\ d.filePath # None /\ d.filePath[1] \notin files

\* At most two requests, one after the other and none repeated: the first is
\* getDashboardAnalytics, a second one is getCalls and is issued only once
\* the first has answered without success.
TwoSequentialRequests ==
    /\ Len(sent) \in {1, 2}
    /\ sent[1].api = "getDashboardAnalytics"
    /\ Len(sent) = 2 =>
          /\ sent[2].api = "getCalls"
          /\ first.kind = "fail"
    /\ second.kind # "pending" => Len(sent) = 2

\* Both requests failed: the primary answered without success and the
\* fallback answered without success or rejected.
BothFailed == first.kind = "fail" /\ second.kind \in {"fail", "throw"}

\* C11: every dashboard load terminates: loading becomes false in the end and
\* stays false, after at most two requests issued one after the other (the
\* fallback only after the primary has completed) and never repeated; loading
\* is true exactly while the load is under way; when both requests failed,
\* analyticsData is still null and recentCalls still empty.
C11_LoadTerminates ==
    /\ <>[](loading = FALSE)
    /\ [](TwoSequentialRequests)
    /\ [](loading = (dpc # "done"))
    /\ [](BothFailed => analyticsData = None /\ recentCalls = <<>>)
    /\ [][loading = FALSE => UNCHANGED dvars]_vars

\* C11 witness: a load that ended after both of its requests failed, with
\* loading false, no analytics data and no recent calls.
C11_Witness ==
    /\ dpc = "done" /\ loading = FALSE
    /\ Len(sent) = 2 /\ BothFailed
    /\ analyticsData = None /\ recentCalls = <<>>

\* The step just taken left its handler suspended at its second await.
Suspends == \E r \in DOMAIN reqs : reqs[r].pc = "idle" /\ reqs'[r].pc # "idle"

\* The request of step e failed validation: an upload without a file, a URL
\* document without name or url.
ValidationFailed(e) ==
    \/ e.op = "uploadDocument" /\ ~e.hasFile
    \/ e.op = "createUrlDocument" /\ (Missing(payload.urlName) \/ Missing(payload.url))

\* The status of the response of step e is the one of its category: 500 for
\* an internal failure (a store or filesystem error, or the TypeError of a
\* request without user) and only for that, 401 for getDocuments without an
\* authenticated user, 400 for a validation failure, 404 only from an
\* operation on one document when the user owns no document of that id.
StatusOfCategory(e) ==
    /\ e.status \in {200, 201} \cup ErrorStatus
    /\ (e.error # "none") <=> (e.status = 500)
    /\ e.error \in {"none", "store", "fs", "TypeError"}
    /\ (e.status = 401) <=> (e.op = "getDocuments" /\ e.user \in {NoUser, NoId})
    /\ (e.status = 400) <=> ValidationFailed(e)
    /\ e.status = 404 =>
          /\ e.op \in {"getDocument", "updateDocument", "deleteDocument"}
          /\ OwnedBy(documents, e.id, e.user) = {}
    /\ (e.user = NoUser /\ e.op # "getDocuments" /\ ~ValidationFailed(e))
          => e.status = 500 /\ e.error = "TypeError"

\* C12: every invocation of a controller operation ends with exactly one
\* response: a handler that is suspended at its second await has sent none and
\* can always continue, a handler that ends has sent one, never none or two,
\* and every failure is answered with the status of its category (401, 400,
\* 404, 500).
C12_ExactlyOneResponse ==
    /\ [][LET e == last' IN
            /\ Suspends => e.responses = 0 /\ e.status = 0
            /\ ~Suspends => e.responses = 1 /\ StatusOfCategory(e)]_vars
    /\ [](\A r \in DOMAIN reqs :
            /\ reqs[r].pc \in {"idle", "save", "deleteOne"}
            /\ reqs[r].pc = "save" => ENABLED UploadDocumentSave(r)
            /\ reqs[r].pc = "deleteOne" => ENABLED DeleteDocumentDeleteOne(r))

\* C12 witness: an upload whose save rejected after the record was created
\* ended with one response, 500.
C12_Witness ==
    /\ last.op = "uploadDocument" /\ "create" \in last.eff
    /\ last.error = "store" /\ last.status = 500 /\ last.responses = 1

\* The band that goes with a displayed score.
BandOf(score) ==
    IF score >= 80 THEN "success"
    ELSE IF score >= 70 THEN "warning"
    ELSE "error"

\* C13, as claimed: for every rendered recent call the displayed score is the
\* call's own score if it has one (non-zero), else the score of its
\* performance data if it has one, else a placeholder in 70..99, and the band
\* shown next to it is the band of the displayed score: success iff it is
\* >= 80, warning iff it is >= 70 and < 80, error otherwise.
C13_ScoreBandAgree ==
    rendered # NoBadge =>
       /\ IF rendered.score # None /\ rendered.score[1] # 0
             THEN rendered.text = rendered.score[1]
          ELSE IF rendered.perf # None /\ rendered.perf[1] # 0
             THEN rendered.text = rendered.perf[1]
          ELSE rendered.text \in 70..99
       /\ rendered.band = BandOf(rendered.text)

====
